---- MODULE Spec2Model ----
(***************************************************************************)
(* State-machine model of the MCP gateway test UI (MCPGatewayUI and its    *)
(* TestRunner), of the WebSocket chat client (MCPChatInterface), and of    *)
(* the pure helpers they use (makeRequest's response parsing, parseTools). *)
(*                                                                         *)
(* JavaScript values are tagged records so that values of different        *)
(* JavaScript types can be compared.  Strings are TLA+ strings; the string *)
(* methods the code uses (startsWith, substring, split, includes,          *)
(* toLowerCase) are computed character by character.                       *)
(***************************************************************************)
EXTENDS Integers, Sequences, FiniteSets, TLC

VARIABLES
    \* ---- MCPGatewayUI fields
    sessionId,        \* this.sessionId
    isConnected,      \* this.isConnected
    availableTools,   \* this.availableTools
    currentTool,      \* this.currentTool
    testRunner,       \* this.testRunner (null or the TestRunner's fields)
    \* ---- the page
    log,              \* the entries of #chatMessages
    modal,            \* #responseModal
    loading,          \* #loadingOverlay shown
    \* ---- asynchronous operations and the network
    tasks,            \* the async invocations in progress, each with its request in flight
    uncaught,         \* an exception left an async operation uncaught
    nOps,             \* user actions taken so far (bounds the exploration)
    selectedTool,     \* history: what the constructor, selectTool() or disconnect() last gave currentTool
    \* ---- harness of the pure functions
    fnIn,             \* the input drawn for the function under check
    fnOut,            \* its output, once applied
    \* ---- MCPChatInterface fields and its sockets
    chat,             \* the fields of MCPChatInterface and the page it drives
    socks,            \* the WebSockets created so far
    timers            \* pending setTimeout callbacks of the chat client

uiVars == <<sessionId, isConnected, availableTools, currentTool, testRunner,
            log, modal, loading, tasks, uncaught, nOps, selectedTool>>
fnVars == <<fnIn, fnOut>>
chatVars == <<chat, socks, timers>>
vars == <<uiVars, fnVars, chatVars>>

(***************************************************************************)
(* Bounds of the exploration.                                              *)
(***************************************************************************)
MaxTasks == 2
MaxOps == 3
MaxTestsPerCategory == 1
MaxLines == 2
MaxTools == 2

(***************************************************************************)
(* JavaScript values.                                                      *)
(***************************************************************************)
JNull == [t |-> "null"]
JUndef == [t |-> "undefined"]
JBool(b) == [t |-> "bool", b |-> b]
JNum(n) == [t |-> "num", n |-> n]
JStr(s) == [t |-> "str", s |-> s]
JArr(a) == [t |-> "arr", a |-> a]
JObj(m) == [t |-> "obj", m |-> m]

\* ToBoolean: what `if (v)`, `!v` and `v || w` test.
Truthy(v) ==
    CASE v.t = "null" -> FALSE
      [] v.t = "undefined" -> FALSE
      [] v.t = "bool" -> v.b
      [] v.t = "num" -> v.n # 0
      [] v.t = "str" -> v.s # ""
      [] OTHER -> TRUE

\* v.name for a value v that is neither null nor undefined (those throw).
Member(v, name) ==
    IF v.t = "obj" /\ name \in DOMAIN v.m THEN v.m[name] ELSE JUndef

\* v?.name
OptMember(v, name) ==
    IF v.t \in {"null", "undefined"} THEN JUndef ELSE Member(v, name)

(***************************************************************************)
(* String methods.                                                         *)
(***************************************************************************)
StartsWith(s, p) == Len(s) >= Len(p) /\ SubSeq(s, 1, Len(p)) = p

\* s.substring(n)
Substring(s, n) == SubSeq(s, n + 1, Len(s))

Includes(s, p) ==
    \E i \in 1..(Len(s) - Len(p) + 1) : SubSeq(s, i, i + Len(p) - 1) = p

Upper == "ABCDEFGHIJKLMNOPQRSTUVWXYZ"
Lower == "abcdefghijklmnopqrstuvwxyz"

LowerChar(c) ==
    IF \E k \in 1..Len(Upper) : SubSeq(Upper, k, k) = c
    THEN LET k == CHOOSE k \in 1..Len(Upper) : SubSeq(Upper, k, k) = c
         IN  SubSeq(Lower, k, k)
    ELSE c

RECURSIVE ToLowerCase(_)
ToLowerCase(s) ==
    IF s = "" THEN ""
    ELSE LowerChar(SubSeq(s, 1, 1)) \o ToLowerCase(Substring(s, 1))

\* s.split('\n')
RECURSIVE Split(_)
Split(s) ==
    IF \E i \in 1..Len(s) : SubSeq(s, i, i) = "\n"
    THEN LET i == CHOOSE i \in 1..Len(s) :
                    /\ SubSeq(s, i, i) = "\n"
                    /\ \A j \in 1..(i - 1) : SubSeq(s, j, j) # "\n"
         IN  <<SubSeq(s, 1, i - 1)>> \o Split(Substring(s, i))
    ELSE <<s>>

(***************************************************************************)
(* The scripted scenarios (name and tool of each; the canned parameters of *)
(* a scenario are referred to by its category and position).               *)
(***************************************************************************)
testScenarios == [
    sheets |-> <<
        [name |-> "Create Spreadsheet", tool |-> "google_sheets_mcp_gs_create_spreadsheet"],
        [name |-> "Get Values", tool |-> "google_sheets_mcp_gs_values_get"],
        [name |-> "Update Values", tool |-> "google_sheets_mcp_gs_values_update"],
        [name |-> "Append Values", tool |-> "google_sheets_mcp_gs_values_append"],
        [name |-> "Clear Values", tool |-> "google_sheets_mcp_gs_values_clear"],
        [name |-> "Add Sheet", tool |-> "google_sheets_mcp_gs_add_sheet"],
        [name |-> "Delete Sheet", tool |-> "google_sheets_mcp_gs_delete_sheet"] >>,
    slides |-> <<
        [name |-> "Create Presentation", tool |-> "google_slides_mcp_gs_create_presentation"],
        [name |-> "Get Presentation", tool |-> "google_slides_mcp_gs_get_presentation"],
        [name |-> "Batch Update Presentation", tool |-> "google_slides_mcp_gs_batch_update_presentation"],
        [name |-> "Get Page", tool |-> "google_slides_mcp_gs_get_page"],
        [name |-> "Summarize Presentation", tool |-> "google_slides_mcp_gs_summarize_presentation"] >>,
    whatsapp |-> <<
        [name |-> "Send Text Message", tool |-> "whatsapp_wa_send_text"],
        [name |-> "Send Template Message", tool |-> "whatsapp_wa_send_template"],
        [name |-> "Send Image URL", tool |-> "whatsapp_wa_send_image_url"],
        [name |-> "Send Document URL", tool |-> "whatsapp_wa_send_document_url"],
        [name |-> "Send Buttons", tool |-> "whatsapp_wa_send_buttons"],
        [name |-> "Mark Message as Read", tool |-> "whatsapp_wa_mark_read"],
        [name |-> "Upload Media", tool |-> "whatsapp_wa_upload_media"] >>,
    forms |-> <<
        [name |-> "Create Form", tool |-> "google_forms_mcp_gf_create_form"],
        [name |-> "Get Form", tool |-> "google_forms_mcp_gf_get_form"],
        [name |-> "Add Text Question", tool |-> "google_forms_mcp_gf_add_question"],
        [name |-> "Add Multiple Choice Question", tool |-> "google_forms_mcp_gf_add_question"],
        [name |-> "Delete Question", tool |-> "google_forms_mcp_gf_delete_question"],
        [name |-> "Get Responses", tool |-> "google_forms_mcp_gf_get_responses"],
        [name |-> "List Forms via Drive", tool |-> "google_forms_mcp_gf_drive_list_forms"],
        [name |-> "Batch Update Form", tool |-> "google_forms_mcp_gf_batch_update"] >> ]

\* The categories with slides run before sheets.
CategoriesSlidesFirst == <<"slides", "sheets", "whatsapp", "forms">>

\* Object.keys(testScenarios), in insertion order.
Categories == <<"sheets", "slides", "whatsapp", "forms">>

CategorySet == {Categories[k] : k \in 1..Len(Categories)}

\* The tool names the scenarios of a category use.
ScenarioTools(c) == {testScenarios[c][k].tool : k \in 1..Len(testScenarios[c])}

AllScenarioTools == UNION {ScenarioTools(c) : c \in CategorySet}

(***************************************************************************)
(* parseTools: the tools of a tools/list answer, by category.              *)
(***************************************************************************)
\* The branch of the if/else-if chain a lower-cased name takes.
CategoryOf(name) ==
    IF Includes(name, "sheets") \/ Includes(name, "gs_") THEN "sheets"
    ELSE IF Includes(name, "slides") \/ Includes(name, "gs_") THEN "slides"
    ELSE IF Includes(name, "whatsapp") \/ Includes(name, "wa_") THEN "whatsapp"
    ELSE IF Includes(name, "forms") \/ Includes(name, "gf_") THEN "forms"
    ELSE "none"

\* tool.name.toLowerCase() throws unless tool is an object-like value whose
\* name is a string.
HasStringName(tool) ==
    /\ tool.t \notin {"null", "undefined"}
    /\ Member(tool, "name").t = "str"

RECURSIVE Categorize(_, _)
Categorize(tools, categorized) ==
    IF tools = <<>> THEN categorized
    ELSE LET tool == Head(tools)
             c == CategoryOf(ToLowerCase(Member(tool, "name").s))
         IN  Categorize(Tail(tools),
                 IF c = "none" THEN categorized
                 ELSE [categorized EXCEPT ![c] = Append(@, tool)])

\* parseTools(tools): [throws, value].  tools.forEach exists only on arrays.
parseTools(tools) ==
    IF tools.t # "arr" \/ \E k \in 1..Len(tools.a) : ~HasStringName(tools.a[k])
    THEN [throws |-> TRUE, value |-> <<>>]
    ELSE [throws |-> FALSE,
          value |-> Categorize(tools.a, [c \in CategorySet |-> <<>>])]

(***************************************************************************)
(* The gateway's answers.  A response is a network failure or an HTTP      *)
(* response with a status, headers (names lower-cased, as the Headers      *)
(* object gives them) and a body text.                                     *)
(***************************************************************************)
NetworkError ==
    [kind |-> "neterr", status |-> 0, statusText |-> "", headers |-> <<>>, body |-> ""]

HttpResponse(status, statusText, headers, body) ==
    [kind |-> "http", status |-> status, statusText |-> statusText,
     headers |-> headers, body |-> body]

\* response.ok
ResponseOk(resp) == resp.status >= 200 /\ resp.status <= 299

\* obj[name] on the plain object made from the response headers.
Header(headers, name) ==
    IF name \in DOMAIN headers THEN JStr(headers[name]) ELSE JUndef

(***************************************************************************)
(* JSON texts and what JSON.parse makes of them.                           *)
(***************************************************************************)
ToolObj(name) == JObj([name |-> JStr(name)])

ToolText(name) == "{\"name\":\"" \o name \o "\"}"

RECURSIVE ToolsText(_)
ToolsText(names) ==
    IF names = <<>> THEN ""
    ELSE IF Len(names) = 1 THEN ToolText(names[1])
    ELSE ToolText(names[1]) \o "," \o ToolsText(Tail(names))

ToolObjs(names) == JArr([k \in 1..Len(names) |-> ToolObj(names[k])])

Envelope(members) ==
    JObj([k \in {"jsonrpc", "id"} \cup DOMAIN members |->
            IF k = "jsonrpc" THEN JStr("2.0")
            ELSE IF k = "id" THEN JNum(1)
            ELSE members[k]])

EnvelopeText(rest) == "{\"jsonrpc\":\"2.0\",\"id\":1," \o rest \o "}"

\* A tools/list answer as JSON-RPC has it: the tools inside result.
ListResultDoc(names) ==
    [text |-> EnvelopeText("\"result\":{\"tools\":[" \o ToolsText(names) \o "]}"),
     value |-> Envelope([result |-> JObj([tools |-> ToolObjs(names)])])]

\* An answer with a tools member beside jsonrpc and id.
ListTopDoc(names) ==
    [text |-> EnvelopeText("\"tools\":[" \o ToolsText(names) \o "]"),
     value |-> Envelope([tools |-> ToolObjs(names)])]

\* A result whose body names a session id.
ResultDoc ==
    [text |-> EnvelopeText("\"result\":{\"sessionId\":\"s-body\"}"),
     value |-> Envelope([result |-> JObj([sessionId |-> JStr("s-body")])])]

ErrorDoc ==
    [text |-> EnvelopeText("\"error\":{\"code\":-32000,\"message\":\"failed\"}"),
     value |-> Envelope([error |->
                  JObj([code |-> JNum(-32000), message |-> JStr("failed")])])]

ScalarDocs ==
    { [text |-> "null", value |-> JNull],
      [text |-> "false", value |-> JBool(FALSE)],
      [text |-> "0", value |-> JNum(0)],
      [text |-> "\"\"", value |-> JStr("")],
      [text |-> "1", value |-> JNum(1)],
      [text |-> "[]", value |-> JArr(<<>>)] }

\* The tool lists the modelled gateway answers with.
GatewayTools == <<"google_sheets_mcp_gs_create_spreadsheet", "whatsapp_wa_send_text">>

JsonDocs ==
    {ListResultDoc(GatewayTools), ListTopDoc(GatewayTools), ResultDoc, ErrorDoc}
        \cup ScalarDocs

\* JSON.parse(text): [throws, value].  Texts outside JsonDocs ("", "not json",
\* a truncated document) are no JSON.
JSONParse(text) ==
    IF \E d \in JsonDocs : d.text = text
    THEN [throws |-> FALSE, value |-> (CHOOSE d \in JsonDocs : d.text = text).value]
    ELSE [throws |-> TRUE, value |-> JUndef]

(***************************************************************************)
(* makeRequest.                                                            *)
(***************************************************************************)
baseUrl == "http://localhost:8080/mcp"
protocolVersion == "2025-06-18"

\* The headers of a request, given this.sessionId.
RequestHeaders(sid) ==
    LET names == {"Content-Type", "Accept", "MCP-Protocol-Version"}
                    \cup (IF Truthy(sid) THEN {"Mcp-Session-Id"} ELSE {})
    IN  [h \in names |->
            CASE h = "Content-Type" -> "application/json"
              [] h = "Accept" -> "application/json,text/event-stream"
              [] h = "MCP-Protocol-Version" -> protocolVersion
              [] h = "Mcp-Session-Id" -> sid.s]

\* The JSON-RPC envelope of a request (id is Date.now()).
RequestBody(method, params) ==
    [jsonrpc |-> "2.0", id |-> "Date.now()", method |-> method, params |-> params]

\* What makeRequest hands to fetch.
MakeRequestSend(method, params, sid) ==
    [url |-> baseUrl, method |-> "POST", headers |-> RequestHeaders(sid),
     body |-> RequestBody(method, params)]

\* The loop over the body's lines, without its break: the last data line
\* that parses wins.
RECURSIVE FirstDataNoBreak(_)
FirstDataNoBreak(lines) ==
    IF lines = <<>> THEN JNull
    ELSE LET line == lines[Len(lines)]
             parsed == JSONParse(Substring(line, 6))
         IN  IF StartsWith(line, "data: ") /\ ~parsed.throws
             THEN parsed.value
             ELSE FirstDataNoBreak(SubSeq(lines, 1, Len(lines) - 1))

\* The loop over the body's lines: result stays null until a line that
\* starts with 'data: ' parses; the loop breaks there.
RECURSIVE FirstData(_)
FirstData(lines) ==
    IF lines = <<>> THEN JNull
    ELSE LET line == Head(lines)
             parsed == JSONParse(Substring(line, 6))
         IN  IF StartsWith(line, "data: ") /\ ~parsed.throws
             THEN parsed.value
             ELSE FirstData(Tail(lines))

Throw(message) ==
    [throws |-> TRUE, message |-> message, result |-> JUndef, headers |-> <<>>]

Return(result, headers) ==
    [throws |-> FALSE, message |-> "", result |-> result, headers |-> headers]

\* makeRequest from the point where fetch settles with resp.
MakeRequestReturn(resp) ==
    IF resp.kind = "neterr" THEN Throw("Failed to fetch")
    ELSE IF ~ResponseOk(resp)
    THEN Throw("HTTP " \o ToString(resp.status) \o ": " \o resp.statusText)
    ELSE LET result == FirstData(Split(resp.body))
         IN  IF ~Truthy(result) THEN Throw("Invalid response format")
             ELSE Return(result, resp.headers)

(***************************************************************************)
(* Harness of the pure functions: an input is drawn, the function applied. *)
(***************************************************************************)
NotApplied == [applied |-> FALSE]
Applied(out) == [applied |-> TRUE, out |-> out]

\* The body lines drawn for makeRequest.
BodyLines ==
    { "", "event: message", "data: not json", "data: ",
      "data:" \o ResultDoc.text,
      "data: " \o ResultDoc.text,
      "data: " \o ErrorDoc.text,
      "data: null", "data: 0", "data: 1" }

RECURSIVE Join(_)
Join(lines) ==
    IF lines = <<>> THEN ""
    ELSE IF Len(lines) = 1 THEN lines[1]
    ELSE lines[1] \o "\n" \o Join(Tail(lines))

Bodies == {Join(ls) : ls \in UNION {[1..n -> BodyLines] : n \in 0..MaxLines}}

Statuses == {<<200, "OK">>, <<202, "Accepted">>, <<404, "Not Found">>,
             <<500, "Internal Server Error">>}

HeaderSets == {<<>>, [k \in {"mcp-session-id"} |-> "s1"]}

ParseInputs ==
    {NetworkError} \cup
    {HttpResponse(st[1], st[2], h, b) : st \in Statuses, h \in HeaderSets, b \in Bodies}

\* The tools drawn for parseTools.
ToolInputs ==
    {ToolObj(n) : n \in AllScenarioTools}
        \cup {ToolObj("hubspot_hubspot_create_company"), ToolObj("WhatsApp_Send_Text"),
              JObj([id |-> JNum(1)])}

ToolArrays == {JArr(a) : a \in UNION {[1..n -> ToolInputs] : n \in 0..MaxTools}}

\* The states of the variables a specification does not use.
UiIdle ==
    /\ sessionId = JNull
    /\ isConnected = FALSE
    /\ availableTools = <<>>
    /\ currentTool = JNull
    /\ testRunner = JNull
    /\ log = <<>>
    /\ modal = [shown |-> FALSE, content |-> JNull]
    /\ loading = FALSE
    /\ tasks = <<>>
    /\ uncaught = FALSE
    /\ nOps = 0
    /\ selectedTool = JNull

FnIdle == fnIn = JNull /\ fnOut = NotApplied

ChatIdle == chat = JNull /\ socks = <<>> /\ timers = {}

InitParse == UiIdle /\ ChatIdle /\ fnIn \in ParseInputs /\ fnOut = NotApplied

ApplyMakeRequest ==
    /\ fnOut = NotApplied
    /\ fnOut' = Applied(MakeRequestReturn(fnIn))
    /\ UNCHANGED <<fnIn, uiVars, chatVars>>

NextParse == ApplyMakeRequest

SpecParse == InitParse /\ [][NextParse]_vars

InitTools == UiIdle /\ ChatIdle /\ fnIn \in ToolArrays /\ fnOut = NotApplied

ApplyParseTools ==
    /\ fnOut = NotApplied
    /\ fnOut' = Applied(parseTools(fnIn))
    /\ UNCHANGED <<fnIn, uiVars, chatVars>>

NextTools == ApplyParseTools

SpecTools == InitTools /\ [][NextTools]_vars

(***************************************************************************)
(* Claims about the pure functions.                                        *)
(***************************************************************************)
\* Range of a sequence.
Range(s) == {s[k] : k \in 1..Len(s)}

\* The positions of the body lines that start with 'data: ' and whose rest
\* parses as JSON.
ParsedDataLines(lines) ==
    {k \in 1..Len(lines) :
        StartsWith(lines[k], "data: ") /\ ~JSONParse(Substring(lines[k], 6)).throws}

\* The JSON value of the first of them.
FirstParsedValue(lines) ==
    LET k == CHOOSE k \in ParsedDataLines(lines) :
                 \A j \in ParsedDataLines(lines) : k <= j
    IN  JSONParse(Substring(lines[k], 6)).value

InvalidFormat(out) == out.throws /\ out.message = "Invalid response format"

\* C7: every tool name used in testScenarios is placed by parseTools in the
\* category under which testScenarios lists it, and in no other category.
C7_ScenarioToolsByService ==
    (fnOut.applied /\ ~fnOut.out.throws) =>
        \A k \in 1..Len(fnIn.a) : \A c \in CategorySet :
            Member(fnIn.a[k], "name").s \in ScenarioTools(c) =>
                /\ fnIn.a[k] \in Range(fnOut.out.value[c])
                /\ \A d \in CategorySet \ {c} : fnIn.a[k] \notin Range(fnOut.out.value[d])

\* C8 as claimed: for an ok status makeRequest returns the value of the first
\* data line that parses and throws 'Invalid response format' exactly when no
\* data line parses; for another status it throws 'HTTP <status>'.
C8_AsClaimed ==
    (fnOut.applied /\ fnIn.kind = "http") =>
        LET out == fnOut.out
            lines == Split(fnIn.body)
        IN  IF ~ResponseOk(fnIn)
            THEN out.throws /\ StartsWith(out.message, "HTTP " \o ToString(fnIn.status))
            ELSE /\ InvalidFormat(out) <=> ParsedDataLines(lines) = {}
                 /\ ParsedDataLines(lines) # {} =>
                        ~out.throws /\ out.result = FirstParsedValue(lines)

\* C8 amended: the first data line that parses decides; makeRequest returns
\* its value when that value is truthy, and throws 'Invalid response format'
\* when no data line parses or that value is falsy (null, false, 0, "").
C8_FirstParsedDataLine ==
    (fnOut.applied /\ fnIn.kind = "http") =>
        LET out == fnOut.out
            lines == Split(fnIn.body)
        IN  IF ~ResponseOk(fnIn)
            THEN out.throws /\ StartsWith(out.message, "HTTP " \o ToString(fnIn.status))
            ELSE IF ParsedDataLines(lines) = {} \/ ~Truthy(FirstParsedValue(lines))
            THEN InvalidFormat(out)
            ELSE ~out.throws /\ out.result = FirstParsedValue(lines)

\* A body whose first data line does not parse and whose second does; the
\* second line's value was returned.
C8_Witness ==
    /\ fnOut.applied /\ fnIn.kind = "http" /\ ResponseOk(fnIn)
    /\ LET lines == Split(fnIn.body)
       IN  /\ Len(lines) = 2
           /\ StartsWith(lines[1], "data: ")
           /\ ParsedDataLines(lines) = {2}
           /\ ~fnOut.out.throws
           /\ fnOut.out.result = ResultDoc.value

(***************************************************************************)
(* MCPGatewayUI: the page's log, modal and overlay.                        *)
(***************************************************************************)
\* addMessage(type, header, body): one entry of #chatMessages.
Entry(type, header, body) == [type |-> type, header |-> header, body |-> body]

SystemEntry(message) == Entry("system", "System", JStr(message))
ErrorEntry(message) == Entry("error", "Error", JStr(message))
RequestEntry(toolName, parameters) ==
    Entry("request", "Request: " \o toolName, parameters)
ResponseEntry(toolName, response) ==
    Entry("response", "Response: " \o toolName, response)

HiddenModal == [shown |-> FALSE, content |-> JNull]
ShownModal(content) == [shown |-> TRUE, content |-> content]

(***************************************************************************)
(* Asynchronous invocations.  Each runs in a slot of `tasks`: its kind,    *)
(* the await it is suspended at (pc), the request it has in flight, the    *)
(* methods it has sent and the number of responses it has received, and    *)
(* its local variables.  An invocation resumes when its fetch settles; the *)
(* response is the resuming action's input.                                *)
(***************************************************************************)
NoReq == [none |-> TRUE]

IdleTask ==
    [kind |-> "idle", pc |-> "", req |-> NoReq,
     sent |-> <<>>, rcvd |-> 0, initResponse |-> JNull,
     cats |-> <<>>, i |-> 0, tool |-> JNull, originalTool |-> JNull]

Slots == 1..MaxTasks

HasFreeSlot == \E k \in Slots : tasks[k].kind = "idle"

FreeSlot == CHOOSE k \in Slots :
                /\ tasks[k].kind = "idle"
                /\ \A j \in Slots : tasks[j].kind = "idle" => k <= j

\* The task after makeRequest(method, params) reached its fetch.
Sending(task, method, params) ==
    [task EXCEPT !.pc = method,
                 !.req = MakeRequestSend(method, params, sessionId),
                 !.sent = Append(@, method)]

\* The task after its fetch settled.
Received(task) ==
    [task EXCEPT !.req = NoReq, !.rcvd = @ + 1]

Awaiting(k, kind, pc) ==
    /\ k \in Slots
    /\ tasks[k].kind = kind
    /\ tasks[k].pc = pc
    /\ tasks[k].req # NoReq

InitializeParams ==
    [protocolVersion |-> protocolVersion, capabilities |-> "{ tools: {} }",
     clientInfo |-> [name |-> "MCP Gateway UI", version |-> "1.0.0"]]

NoParams == [empty |-> TRUE]

CallParams(tool, arguments) == [name |-> Member(tool, "name"), arguments |-> arguments]

(***************************************************************************)
(* The gateway: it may answer any request with any of these responses.     *)
(***************************************************************************)
SessionHeader(sid) == [k \in {"mcp-session-id"} |-> sid]

GatewayResponses ==
    { \* fetch rejects
      NetworkError,
      \* a status that is not ok
      HttpResponse(500, "Internal Server Error", <<>>, ""),
      \* a notification accepted: no body
      HttpResponse(202, "Accepted", SessionHeader("s1"), ""),
      \* a result, the session id in the body only
      HttpResponse(200, "OK", <<>>, "data: " \o ResultDoc.text),
      \* a JSON-RPC error
      HttpResponse(200, "OK", SessionHeader("s1"),
                   "event: message\ndata: " \o ErrorDoc.text),
      \* the tools inside result
      HttpResponse(200, "OK", SessionHeader("s2"),
                   "event: message\ndata: " \o ListResultDoc(GatewayTools).text),
      \* the tools beside jsonrpc and id
      HttpResponse(200, "OK", SessionHeader("s1"),
                   "data: " \o ListTopDoc(GatewayTools).text) }

(***************************************************************************)
(* connect() and disconnect(), behind the connection button.               *)
(***************************************************************************)
\* The click handler's else branch: connect() up to its first await.
Connect ==
    /\ nOps < MaxOps
    /\ ~isConnected
    /\ HasFreeSlot
    /\ loading' = TRUE
    /\ tasks' = [tasks EXCEPT ![FreeSlot] =
                    Sending([IdleTask EXCEPT !.kind = "connect"],
                            "initialize", InitializeParams)]
    /\ nOps' = nOps + 1
    /\ UNCHANGED <<sessionId, isConnected, availableTools, currentTool, testRunner,
                   log, modal, uncaught>>

\* The click handler's then branch: disconnect().
Disconnect ==
    /\ nOps < MaxOps
    /\ isConnected
    /\ sessionId' = JNull
    /\ isConnected' = FALSE
    /\ availableTools' = <<>>
    /\ currentTool' = JNull
    /\ selectedTool' = JNull
    /\ log' = Append(log, SystemEntry("Disconnected from MCP Gateway"))
    /\ nOps' = nOps + 1
    /\ UNCHANGED <<testRunner, modal, loading, tasks, uncaught>>

\* connect() with its try block left by an exception that nothing catches.
ConnectNoCatch(k, message) ==
    /\ uncaught' = TRUE
    /\ loading' = FALSE
    /\ tasks' = [tasks EXCEPT ![k] = IdleTask]
    /\ UNCHANGED <<log, isConnected, availableTools, currentTool, testRunner, modal, nOps>>

\* connect()'s catch and finally blocks.
ConnectCatch(k, message) ==
    /\ log' = Append(log, ErrorEntry("Connection failed: " \o message))
    /\ loading' = FALSE
    /\ tasks' = [tasks EXCEPT ![k] = IdleTask]
    /\ UNCHANGED <<isConnected, availableTools, currentTool, testRunner, modal,
                   uncaught, nOps>>

NextConnectRequestSkipping(pc) ==
    CASE pc = "initialize" -> "tools/list"
      [] pc = "notifications/initialized" -> "tools/list"
      [] OTHER -> ""

\* The request connect() makes after the response to `pc` (none after the last).
NextConnectRequest(pc) ==
    CASE pc = "initialize" -> "notifications/initialized"
      [] pc = "notifications/initialized" -> "tools/list"
      [] OTHER -> ""

\* connect() resumed with the response to initialize.
ConnectAfterInitialize(k, resp) ==
    /\ Awaiting(k, "connect", "initialize")
    /\ LET out == MakeRequestReturn(resp)
       IN  IF out.throws
           THEN ConnectCatch(k, out.message) /\ UNCHANGED sessionId
           ELSE /\ tasks' = [tasks EXCEPT ![k] =
                        Sending([Received(@) EXCEPT !.initResponse = out],
                                NextConnectRequest("initialize"), NoParams)]
                /\ UNCHANGED <<sessionId, isConnected, availableTools, currentTool,
                               testRunner, log, modal, loading, uncaught, nOps>>

\* connect() resumed with the response to notifications/initialized.
ConnectAfterInitialized(k, resp) ==
    /\ Awaiting(k, "connect", "notifications/initialized")
    /\ LET out == MakeRequestReturn(resp)
       IN  IF out.throws
           THEN ConnectCatch(k, out.message) /\ UNCHANGED sessionId
           ELSE /\ tasks' = [tasks EXCEPT ![k] =
                        Sending(Received(@),
                                NextConnectRequest("notifications/initialized"), NoParams)]
                /\ UNCHANGED <<sessionId, isConnected, availableTools, currentTool,
                               testRunner, log, modal, loading, uncaught, nOps>>

\* The session id taken from the latest response instead of initialize's.
SessionIdFromLast(initResponse, toolsResponse) ==
    Header(toolsResponse.headers, "mcp-session-id")

\* this.sessionId = initResponse.headers['mcp-session-id']
SessionIdFrom(initResponse, toolsResponse) ==
    Header(initResponse.headers, "mcp-session-id")

\* toolsResponse.result?.tools || []
ToolsOf(toolsResponse) ==
    LET tools == OptMember(toolsResponse.result, "tools")
    IN  IF Truthy(tools) THEN tools ELSE JArr(<<>>)

\* connect() resumed with the response to tools/list.
ConnectAfterToolsList(k, resp) ==
    /\ Awaiting(k, "connect", "tools/list")
    /\ LET out == MakeRequestReturn(resp)
           parsed == parseTools(ToolsOf(out))
       IN  IF out.throws
           THEN ConnectCatch(k, out.message) /\ UNCHANGED sessionId
           ELSE /\ sessionId' = SessionIdFrom(tasks[k].initResponse, out)
                /\ IF parsed.throws
                   THEN ConnectCatch(k, "tools.forEach is not a function")
                   ELSE /\ availableTools' = parsed.value
                        /\ isConnected' = TRUE
                        /\ log' = Append(log,
                                SystemEntry("Successfully connected to MCP Gateway!"))
                        /\ loading' = FALSE
                        /\ tasks' = [tasks EXCEPT ![k] = IdleTask]
                        /\ UNCHANGED <<currentTool, testRunner, modal, uncaught, nOps>>

(***************************************************************************)
(* Tool selection and execution, the chat log and the modal.               *)
(***************************************************************************)
\* The tools shown in the sidebar (populateToolsList / clearToolsList).
ListedTools ==
    UNION {Range(availableTools[c]) : c \in DOMAIN availableTools}

\* A click on a tool of the sidebar.
SelectTool(tool) ==
    /\ nOps < MaxOps
    /\ nOps' = nOps + 1
    /\ tool \in ListedTools
    /\ currentTool' = tool
    /\ selectedTool' = tool
    /\ UNCHANGED <<sessionId, isConnected, availableTools, testRunner,
                   log, modal, loading, tasks, uncaught>>

FormParameters == [from |-> "parametersForm"]

\* executeCurrentTool() up to its await.
ExecuteCurrentTool ==
    /\ nOps < MaxOps
    /\ nOps' = nOps + 1
    /\ IF ~Truthy(currentTool)
       THEN /\ log' = Append(log, ErrorEntry("No tool selected"))
            /\ UNCHANGED <<loading, tasks>>
       ELSE /\ HasFreeSlot
            /\ loading' = TRUE
            /\ log' = Append(log,
                    RequestEntry(Member(currentTool, "name").s, FormParameters))
            /\ tasks' = [tasks EXCEPT ![FreeSlot] =
                    Sending([IdleTask EXCEPT !.kind = "execute"], "tools/call",
                            CallParams(currentTool, FormParameters))]
    /\ UNCHANGED <<sessionId, isConnected, availableTools, currentTool, testRunner,
                   modal, uncaught>>

\* executeCurrentTool()'s catch and finally blocks.
ExecuteCatch(k, message) ==
    /\ log' = Append(log, ErrorEntry("Tool execution failed: " \o message))
    /\ loading' = FALSE
    /\ tasks' = [tasks EXCEPT ![k] = IdleTask]
    /\ UNCHANGED <<sessionId, isConnected, availableTools, currentTool, testRunner,
                   modal, uncaught, nOps>>

\* executeCurrentTool() resumed with the response to its tools/call.
ExecuteAfterCall(k, resp) ==
    /\ Awaiting(k, "execute", "tools/call")
    /\ LET out == MakeRequestReturn(resp)
       IN  IF out.throws THEN ExecuteCatch(k, out.message)
           ELSE IF currentTool = JNull
           THEN ExecuteCatch(k, "Cannot read properties of null (reading 'name')")
           ELSE /\ log' = Append(log,
                        ResponseEntry(Member(currentTool, "name").s, out.result))
                /\ modal' = ShownModal(out.result)
                /\ loading' = FALSE
                /\ tasks' = [tasks EXCEPT ![k] = IdleTask]
                /\ UNCHANGED <<sessionId, isConnected, availableTools, currentTool,
                               testRunner, uncaught, nOps>>

ClearChat ==
    /\ nOps < MaxOps
    /\ nOps' = nOps + 1
    /\ log' = <<SystemEntry("Chat cleared. Ready for new requests.")>>
    /\ UNCHANGED <<sessionId, isConnected, availableTools, currentTool, testRunner,
                   modal, loading, tasks, uncaught>>

CloseModal ==
    /\ nOps < MaxOps
    /\ nOps' = nOps + 1
    /\ modal' = [modal EXCEPT !.shown = FALSE]
    /\ UNCHANGED <<sessionId, isConnected, availableTools, currentTool, testRunner,
                   log, loading, tasks, uncaught>>

(***************************************************************************)
(* TestRunner.                                                             *)
(***************************************************************************)
Min(a, b) == IF a <= b THEN a ELSE b

\* The scenarios of a category that the exploration replays.
Tests(c) ==
    SubSeq(testScenarios[c], 1, Min(MaxTestsPerCategory, Len(testScenarios[c])))

\* new TestRunner(mcpUI).  The last two are history fields, not fields of
\* the object: a category run was started since the last run-all began, and
\* a category run was still going on when the last run-all began.
NewTestRunner ==
    [currentTestIndex |-> 0, currentCategory |-> JNull, isRunning |-> FALSE,
     results |-> <<>>, categoryRunStarted |-> FALSE, categoryRunAtStart |-> FALSE]

\* this.testRunner after `if (!this.testRunner) this.testRunner = new TestRunner(this)`.
EnsuredRunner == IF testRunner = JNull THEN NewTestRunner ELSE testRunner

Passed(category, test, result) ==
    [category |-> category, test |-> test, success |-> TRUE,
     result |-> result, error |-> ""]

Failed(category, test, error) ==
    [category |-> category, test |-> test, success |-> FALSE,
     result |-> JUndef, error |-> error]

\* findTool throws when availableTools has no category arrays to spread.
FindToolThrows == DOMAIN availableTools # CategorySet

AllTools ==
    availableTools["sheets"] \o availableTools["slides"]
        \o availableTools["whatsapp"] \o availableTools["forms"]

\* findTool(toolName): the first tool of that name, or undefined.
FindTool(toolName) ==
    LET hits == {k \in 1..Len(AllTools) : Member(AllTools[k], "name") = JStr(toolName)}
    IN  IF hits = {} THEN JUndef
        ELSE AllTools[CHOOSE k \in hits : \A j \in hits : k <= j]

\* The first statements of runCategoryTests(category).
EnterCategory(runner, category) == [runner EXCEPT !.currentCategory = JStr(category)]

EnterCategoryEntry(category) ==
    SystemEntry("Running " \o category \o " tests ("
                    \o ToString(Len(Tests(category))) \o " tests)...")

\* The runner from the top of iteration i of category Head(cats) up to its
\* next await (a scenario whose tool was found: done is FALSE, and tool is
\* the tool to call) or to the end of the last category (done is TRUE).
\* Scenarios whose tool is missing are recorded and skipped on the way.
RECURSIVE RunLoop(_, _, _, _)
RunLoop(runner, lg, cats, i) ==
    IF cats = <<>>
    THEN [done |-> TRUE, runner |-> runner, log |-> lg, cats |-> cats, i |-> 0,
          tool |-> JNull]
    ELSE
    LET c == Head(cats)
        tests == Tests(c)
    IN  IF i > Len(tests)
        THEN IF Len(cats) = 1
             THEN RunLoop(runner, lg, <<>>, 0)
             ELSE RunLoop(EnterCategory(runner, cats[2]),
                          Append(lg, EnterCategoryEntry(cats[2])), Tail(cats), 1)
        ELSE
        LET test == tests[i]
            r1 == [runner EXCEPT !.currentTestIndex = i - 1]
            lg1 == Append(lg, SystemEntry("Running test " \o ToString(i) \o "/"
                        \o ToString(Len(tests)) \o ": " \o test.name))
            notIterable == "undefined is not iterable"
        IN  IF FindToolThrows
            THEN RunLoop([r1 EXCEPT !.results = Append(@, Failed(c, test.name, notIterable))],
                         Append(lg1, ErrorEntry("Test failed: " \o test.name \o " - "
                                                    \o notIterable)),
                         cats, i + 1)
            ELSE IF ~Truthy(FindTool(test.tool))
            THEN RunLoop([r1 EXCEPT !.results = Append(@,
                                Failed(c, test.name, "Tool " \o test.tool \o " not found"))],
                         lg1, cats, i + 1)
            ELSE [done |-> FALSE, runner |-> r1, log |-> lg1, cats |-> cats, i |-> i,
                  tool |-> FindTool(test.tool)]

ScenarioParameters(category, i) ==
    [from |-> "testScenarios", category |-> category, index |-> i]

CountSuccess(results) == Cardinality({k \in 1..Len(results) : results[k].success})

\* The error entries showTestSummary adds for the failed results.
RECURSIVE FailureEntries(_)
FailureEntries(results) ==
    IF results = <<>> THEN <<>>
    ELSE (IF Head(results).success THEN <<>>
          ELSE <<ErrorEntry("- " \o Head(results).category \o ": "
                    \o Head(results).test \o " - " \o Head(results).error)>>)
         \o FailureEntries(Tail(results))

\* The log after showTestSummary().
SummaryLog(lg, results) ==
    LET total == Len(results)
        ok == CountSuccess(results)
        head == Append(lg, SystemEntry("Test Summary: " \o ToString(ok) \o "/"
                        \o ToString(total) \o " tests passed"))
    IN  IF total - ok > 0
        THEN Append(head, ErrorEntry(ToString(total - ok) \o " tests failed:"))
                \o FailureEntries(results)
        ELSE head

\* A summary whose total counts two scenarios more than results holds.
SummaryOffByTwo(results) ==
    [t |-> "summary", total |-> Len(results) + 2, passed |-> CountSuccess(results),
     failed |-> Len(results) - CountSuccess(results), results |-> results]

\* The object showDetailedResults() shows in the modal.
Summary(results) ==
    [t |-> "summary", total |-> Len(results), passed |-> CountSuccess(results),
     failed |-> Len(results) - CountSuccess(results), results |-> results]

\* A run (slot k, kind runAll or runCategory) carried on from the state `at`
\* that RunLoop reached, with this.currentTool being cur: either executeTest
\* sends the next scenario's tools/call, or the run ends; runAllTests then
\* clears isRunning and shows the summary.
RunProceed(k, kind, at, cur) ==
    IF at.done
    THEN /\ tasks' = [tasks EXCEPT ![k] = IdleTask]
         /\ currentTool' = cur
         /\ IF kind = "runAll"
            THEN /\ testRunner' = [at.runner EXCEPT !.isRunning = FALSE]
                 /\ log' = SummaryLog(at.log, at.runner.results)
                 /\ modal' = ShownModal(Summary(at.runner.results))
            ELSE /\ testRunner' = at.runner
                 /\ log' = at.log
                 /\ UNCHANGED modal
    ELSE /\ testRunner' = at.runner
         /\ log' = at.log
         /\ currentTool' = at.tool
         /\ tasks' = [tasks EXCEPT ![k] =
                [Sending([(IF tasks[k].kind = kind THEN Received(tasks[k]) ELSE IdleTask)
                            EXCEPT !.kind = kind],
                         "tools/call",
                         CallParams(at.tool, ScenarioParameters(Head(at.cats), at.i)))
                    EXCEPT !.cats = at.cats, !.i = at.i, !.tool = at.tool,
                           !.originalTool = cur]]
         /\ UNCHANGED modal

\* The "Run All Tests" button: MCPGatewayUI.runAllTests and, through it,
\* TestRunner.runAllTests up to its first await.
RunAllTests ==
    /\ nOps < MaxOps
    /\ nOps' = nOps + 1
    /\ IF ~isConnected
       THEN /\ log' = Append(log, ErrorEntry("Please connect to MCP Gateway first"))
            /\ UNCHANGED <<testRunner, currentTool, modal, tasks>>
       ELSE IF EnsuredRunner.isRunning
       THEN /\ log' = Append(log, ErrorEntry("Tests are already running"))
            /\ testRunner' = EnsuredRunner
            /\ UNCHANGED <<currentTool, modal, tasks>>
       ELSE /\ HasFreeSlot
            /\ LET r0 == [EnsuredRunner EXCEPT !.isRunning = TRUE, !.results = <<>>,
                                              !.categoryRunStarted = FALSE,
                                              !.categoryRunAtStart =
                                                  \E k \in Slots :
                                                      tasks[k].kind = "runCategory"]
                   l0 == Append(log, SystemEntry("Starting comprehensive test suite..."))
               IN  RunProceed(FreeSlot, "runAll",
                       RunLoop(EnterCategory(r0, Categories[1]),
                               Append(l0, EnterCategoryEntry(Categories[1])),
                               Categories, 1),
                       currentTool)
    /\ UNCHANGED <<sessionId, isConnected, availableTools, loading, uncaught>>

\* The values of #testCategorySelect: no choice, or a category.
CategoryChoices == {""} \cup CategorySet

\* The "Run" button of the category selector: MCPGatewayUI.runCategoryTests
\* and, through it, TestRunner.runCategoryTests up to its first await.
RunCategoryTests(category) ==
    /\ category \in CategoryChoices
    /\ nOps < MaxOps
    /\ nOps' = nOps + 1
    /\ IF category = ""
       THEN /\ log' = Append(log, ErrorEntry("Please select a test category"))
            /\ UNCHANGED <<testRunner, currentTool, modal, tasks>>
       ELSE IF ~isConnected
       THEN /\ log' = Append(log, ErrorEntry("Please connect to MCP Gateway first"))
            /\ UNCHANGED <<testRunner, currentTool, modal, tasks>>
       ELSE /\ HasFreeSlot
            /\ RunProceed(FreeSlot, "runCategory",
                   RunLoop(EnterCategory([EnsuredRunner EXCEPT !.categoryRunStarted = TRUE],
                                         category),
                           Append(log, EnterCategoryEntry(category)),
                           <<category>>, 1),
                   currentTool)
    /\ UNCHANGED <<sessionId, isConnected, availableTools, loading, uncaught>>

\* A run resumed with the response to a scenario's tools/call: executeTest's
\* tail (the response entry, the finally block restoring currentTool), then
\* the result and the delay, or the catch block and the next iteration.
RunAfterCall(k, resp) ==
    /\ k \in Slots
    /\ tasks[k].kind \in {"runAll", "runCategory"}
    /\ tasks[k].pc = "tools/call"
    /\ tasks[k].req # NoReq
    /\ LET task == tasks[k]
           out == MakeRequestReturn(resp)
           c == Head(task.cats)
           test == Tests(c)[task.i]
       IN  IF ~out.throws
           THEN /\ log' = Append(log,
                        ResponseEntry(Member(task.tool, "name").s, out.result))
                /\ currentTool' = task.originalTool
                /\ testRunner' = [testRunner EXCEPT !.results =
                        Append(@, Passed(c, test.name, out.result))]
                /\ tasks' = [tasks EXCEPT ![k] = [Received(task) EXCEPT !.pc = "delay"]]
                /\ UNCHANGED modal
           ELSE RunProceed(k, task.kind,
                    RunLoop([testRunner EXCEPT !.results =
                                Append(@, Failed(c, test.name, out.message))],
                            Append(log, ErrorEntry("Test failed: " \o test.name
                                                      \o " - " \o out.message)),
                            task.cats, task.i + 1),
                    task.originalTool)
    /\ UNCHANGED <<sessionId, isConnected, availableTools, loading, uncaught, nOps>>

\* A run resumed by the timer of delay(1000): the next iteration.
RunAfterDelay(k) ==
    /\ k \in Slots
    /\ tasks[k].kind \in {"runAll", "runCategory"}
    /\ tasks[k].pc = "delay"
    /\ RunProceed(k, tasks[k].kind,
           RunLoop(testRunner, log, tasks[k].cats, tasks[k].i + 1), currentTool)
    /\ UNCHANGED <<sessionId, isConnected, availableTools, loading, uncaught, nOps>>

(***************************************************************************)
(* The gateway UI as a whole.                                              *)
(***************************************************************************)
Init ==
    /\ sessionId = JNull
    /\ isConnected = FALSE
    /\ availableTools = <<>>
    /\ currentTool = JNull
    /\ testRunner = JNull
    /\ log = <<>>
    /\ modal = HiddenModal
    /\ loading = FALSE
    /\ tasks = [k \in Slots |-> IdleTask]
    /\ uncaught = FALSE
    /\ nOps = 0
    /\ selectedTool = JNull
    /\ FnIdle
    /\ ChatIdle

Next ==
    \/ (Connect /\ UNCHANGED <<selectedTool, fnVars, chatVars>>)
    \/ (Disconnect /\ UNCHANGED <<fnVars, chatVars>>)
    \/ (\E tool \in ListedTools : SelectTool(tool) /\ UNCHANGED <<fnVars, chatVars>>)
    \/ (ExecuteCurrentTool /\ UNCHANGED <<selectedTool, fnVars, chatVars>>)
    \/ (ClearChat /\ UNCHANGED <<selectedTool, fnVars, chatVars>>)
    \/ (CloseModal /\ UNCHANGED <<selectedTool, fnVars, chatVars>>)
    \/ (RunAllTests /\ UNCHANGED <<selectedTool, fnVars, chatVars>>)
    \/ (\E c \in CategoryChoices :
            RunCategoryTests(c) /\ UNCHANGED <<selectedTool, fnVars, chatVars>>)
    \/ (\E k \in Slots, r \in GatewayResponses :
            ConnectAfterInitialize(k, r) /\ UNCHANGED <<selectedTool, fnVars, chatVars>>)
    \/ (\E k \in Slots, r \in GatewayResponses :
            ConnectAfterInitialized(k, r) /\ UNCHANGED <<selectedTool, fnVars, chatVars>>)
    \/ (\E k \in Slots, r \in GatewayResponses :
            ConnectAfterToolsList(k, r) /\ UNCHANGED <<selectedTool, fnVars, chatVars>>)
    \/ (\E k \in Slots, r \in GatewayResponses :
            ExecuteAfterCall(k, r) /\ UNCHANGED <<selectedTool, fnVars, chatVars>>)
    \/ (\E k \in Slots, r \in GatewayResponses :
            RunAfterCall(k, r) /\ UNCHANGED <<selectedTool, fnVars, chatVars>>)
    \/ (\E k \in Slots : RunAfterDelay(k) /\ UNCHANGED <<selectedTool, fnVars, chatVars>>)

Spec == Init /\ [][Next]_vars

(***************************************************************************)
(* Claims about MCPGatewayUI.                                              *)
(***************************************************************************)
InFlight(k) == tasks[k].req # NoReq

SessionHeaderOf(req) ==
    IF "Mcp-Session-Id" \in DOMAIN req.headers
    THEN JStr(req.headers["Mcp-Session-Id"]) ELSE JUndef

\* C1: every tools/call request in flight (sent by executeCurrentTool or by
\* the test runner) carries an Mcp-Session-Id header with a non-empty value.
C1_ToolCallsCarrySession ==
    \A k \in Slots :
        (InFlight(k) /\ tasks[k].req.body.method = "tools/call") =>
            Truthy(SessionHeaderOf(tasks[k].req))

\* C2: within one connect(), the requests after initialize carry the
\* Mcp-Session-Id header set to the session id that came with the response
\* to initialize.
C2_HandshakeCarriesSession ==
    \A k \in Slots :
        (/\ tasks[k].kind = "connect"
         /\ InFlight(k)
         /\ tasks[k].req.body.method # "initialize"
         /\ "mcp-session-id" \in DOMAIN tasks[k].initResponse.headers) =>
            SessionHeaderOf(tasks[k].req)
                = Header(tasks[k].initResponse.headers, "mcp-session-id")

ConnectOrder == <<"initialize", "notifications/initialized", "tools/list">>

\* A connect() in progress has sent a prefix of the three requests in order,
\* has received the responses to all but the last one it sent, and that last
\* one is in flight.
ConnectInOrder(k) ==
    LET task == tasks[k]
    IN  task.kind = "connect" =>
            /\ Len(task.sent) \in 1..3
            /\ task.sent = SubSeq(ConnectOrder, 1, Len(task.sent))
            /\ task.rcvd = Len(task.sent) - 1
            /\ InFlight(k)
            /\ task.req.body.method = task.sent[Len(task.sent)]

\* The step in which slot k's connect() ends with success.
ConnectSucceeds(k) ==
    /\ tasks[k].kind = "connect"
    /\ tasks'[k].kind = "idle"
    /\ \E r \in GatewayResponses :
            ~MakeRequestReturn(r).throws /\ ConnectAfterToolsList(k, r)

\* C3: connect() sends initialize, notifications/initialized and tools/list,
\* in this order and each only after the response to the one before, and
\* isConnected becomes true only in the step in which a connect() that has
\* sent all three and received the first two responses receives the third.
C3_HandshakeOrder ==
    [][/\ \A k \in Slots : ConnectInOrder(k)'
       /\ (~isConnected /\ isConnected') =>
            \E k \in Slots :
                /\ ConnectSucceeds(k)
                /\ tasks[k].sent = ConnectOrder
                /\ tasks[k].rcvd = 2]_vars

\* A connect() has succeeded and nothing is in flight.
C3_Witness ==
    /\ isConnected
    /\ \A k \in Slots : tasks[k] = IdleTask
    /\ log # <<>>
    /\ log[Len(log)] = SystemEntry("Successfully connected to MCP Gateway!")

\* C4: when a connect() succeeds, sessionId is the mcp-session-id header of
\* the response to that connect()'s initialize; sessionId changes in no
\* other step but disconnect(), which clears it.
C4_SessionIdFromInitializeHeader ==
    [][/\ \A k \in Slots : ConnectSucceeds(k) =>
            sessionId' = Header(tasks[k].initResponse.headers, "mcp-session-id")
       /\ sessionId' # sessionId =>
            \/ isConnected /\ ~isConnected' /\ sessionId' = JNull
            \/ \E k \in Slots :
                /\ tasks[k].kind = "connect" /\ tasks[k].pc = "tools/list"
                /\ tasks'[k].kind = "idle"
                /\ sessionId' = Header(tasks[k].initResponse.headers,
                                       "mcp-session-id")]_vars

\* Connected with the session id "s2" of the initialize response, while the
\* tools/list response that listed the tools carried "s1".
C4_Witness ==
    /\ isConnected
    /\ sessionId = JStr("s2")
    /\ ListedTools # {}

\* The tools array inside the result member of a JSON-RPC response.
ResultTools(out) ==
    LET tools == OptMember(OptMember(out.result, "result"), "tools")
    IN  IF tools.t = "arr" THEN Range(tools.a) ELSE {}

\* C5: when a connect() succeeds, every tool of the tools/list response's
\* result.tools whose name matches a category is in availableTools.
C5_ListedToolsAvailable ==
    [][\A k \in Slots : \A r \in GatewayResponses :
            (/\ tasks[k].kind = "connect"
             /\ ~MakeRequestReturn(r).throws
             /\ ConnectAfterToolsList(k, r)) =>
                \A tool \in ResultTools(MakeRequestReturn(r)) :
                    CategoryOf(ToLowerCase(Member(tool, "name").s)) # "none" =>
                        \E c \in DOMAIN availableTools' :
                            tool \in Range(availableTools'[c])]_vars

\* C6: while connected (from a successful connect() to the next
\* disconnect()) no tools/list request is sent and availableTools stays as
\* it is.
C6_ToolsFetchedOnce ==
    [][(isConnected /\ isConnected') =>
            /\ availableTools' = availableTools
            /\ \A k \in Slots :
                    (tasks'[k].req # NoReq /\ tasks'[k].req # tasks[k].req) =>
                        tasks'[k].req.body.method # "tools/list"]_vars

\* The step in which a request of slot k's connect() or executeCurrentTool()
\* fails.
RequestFails(k) ==
    /\ InFlight(k)
    /\ tasks'[k] # tasks[k]
    /\ \E r \in GatewayResponses :
        /\ MakeRequestReturn(r).throws
        /\ \/ ConnectAfterInitialize(k, r)
           \/ ConnectAfterInitialized(k, r)
           \/ ConnectAfterToolsList(k, r)
           \/ ExecuteAfterCall(k, r)

\* C9: when a request of connect() or executeCurrentTool() fails, the
\* operation ends there, no exception leaves it, and exactly one entry, an
\* error entry, is added to the message log.
C9_FailuresCaughtAndLogged ==
    [][\A k \in Slots : RequestFails(k) =>
            /\ ~uncaught'
            /\ tasks'[k] = IdleTask
            /\ Len(log') = Len(log) + 1
            /\ SubSeq(log', 1, Len(log)) = log
            /\ log'[Len(log')].type = "error"]_vars

\* An executeCurrentTool() whose request met a network error has ended with
\* its error entry.
C9_Witness ==
    /\ ~uncaught
    /\ \A k \in Slots : tasks[k] = IdleTask
    /\ log # <<>>
    /\ log[Len(log)] = ErrorEntry("Tool execution failed: Failed to fetch")

(***************************************************************************)
(* MCPChatInterface (script.js): the WebSocket chat client.                *)
(*                                                                         *)
(* chat holds the object's fields and the parts of the page it drives,     *)
(* socks the WebSockets it has created (this.ws is an index into socks, 0  *)
(* for null), timers the pending setTimeout callbacks.  The handlers call  *)
(* one another, so each is an operator from a world (chat, socks, timers)  *)
(* to the world it leaves behind.                                          *)
(***************************************************************************)
MaxChatOps == 3
MaxSockets == 2
MaxMessages == 1

maxReconnectAttempts == 5
reconnectDelay == 1000
connectionTimeoutDelay == 10000

\* tokenInput.value.trim() at the time of handleConnect().
TokenInputs == {"", "a b"}
\* messageInput.value.trim() at the time of sendMessage().
MessageInputs == {"", "hi"}
\* The code of a close event: normal closure, no status in the close frame,
\* abnormal closure, policy violation.
CloseCodes == {1000, 1005, 1006, 1008}
\* The events of the server messages.
ServerEvents == {"user_message", "ai_message", "error"}

EncodeChar(c) ==
    CASE c = " " -> "%20"
      [] c = "&" -> "%26"
      [] c = "=" -> "%3D"
      [] c = "?" -> "%3F"
      [] c = "/" -> "%2F"
      [] OTHER -> c

RECURSIVE encodeURIComponent(_)
encodeURIComponent(s) ==
    IF s = "" THEN ""
    ELSE EncodeChar(SubSeq(s, 1, 1)) \o encodeURIComponent(SubSeq(s, 2, Len(s)))

WebSocketUrl(token) == "ws://localhost:9090/ws?token=" \o encodeURIComponent(token)

\* new WebSocket(url); by names the caller of connect() that created it.
NewWebSocket(url, by) ==
    [readyState |-> "connecting", url |-> url, by |-> by, opened |-> FALSE,
     sent |-> <<>>]

\* WebSocket.close()
CloseSocket(sock) ==
    IF sock.readyState \in {"connecting", "open"}
    THEN [sock EXCEPT !.readyState = "closing"]
    ELSE sock

NewChat ==
    [ws |-> 0,
     isConnected |-> FALSE,
     reconnectAttempts |-> 0,
     authToken |-> JNull,
     connectionTimeout |-> 0,
     authModal |-> TRUE,
     authError |-> JNull,
     connectButtonDisabled |-> FALSE,
     connectionStatus |-> "",
     connectionStatusText |-> "",
     messages |-> <<>>,
     nextTimer |-> 1]

World == [chat |-> chat, socks |-> socks, timers |-> timers]

Becomes(w) ==
    /\ chat' = w.chat
    /\ socks' = w.socks
    /\ timers' = w.timers

setTimeout(w, callback, delay) ==
    [w EXCEPT !.timers = @ \cup {[id |-> w.chat.nextTimer,
                                  callback |-> callback, delay |-> delay]},
              !.chat.nextTimer = @ + 1]

\* if (this.connectionTimeout) { clearTimeout(...); this.connectionTimeout = null }
clearConnectionTimeout(w) ==
    IF w.chat.connectionTimeout # 0
    THEN [w EXCEPT !.timers = {t \in @ : t.id # w.chat.connectionTimeout},
                   !.chat.connectionTimeout = 0]
    ELSE w

updateConnectionStatus(w, status, text) ==
    [w EXCEPT !.chat.connectionStatus = status,
              !.chat.connectionStatusText = text]

addUserMessage(w, text) ==
    [w EXCEPT !.chat.messages = Append(@, [type |-> "user", text |-> text])]

addBotMessage(w, text) ==
    [w EXCEPT !.chat.messages = Append(@, [type |-> "bot", text |-> text])]

showErrorMessage(w, message) == addBotMessage(w, message)

showAuthModal(w) == [w EXCEPT !.chat.authModal = TRUE]

hideAuthModal(w) == [w EXCEPT !.chat.authModal = FALSE]

\* A showAuthError that leaves the token in place.
showAuthErrorKeepingToken(w, message) ==
    [w EXCEPT !.chat.authError = JStr(message),
              !.chat.connectButtonDisabled = FALSE,
              !.chat.connectionStatus = "disconnected",
              !.chat.connectionStatusText = "Authentication Failed"]

showAuthError(w, message) ==
    [w EXCEPT !.chat.authError = JStr(message),
              !.chat.connectButtonDisabled = FALSE,
              !.chat.connectionStatus = "disconnected",
              !.chat.connectionStatusText = "Authentication Failed",
              !.chat.authToken = JNull]

hideAuthError(w) == [w EXCEPT !.chat.authError = JNull]

attemptReconnectUnbounded(w) ==
    IF Truthy(w.chat.authToken)
    THEN LET attempts == w.chat.reconnectAttempts + 1
         IN  setTimeout(
                updateConnectionStatus(
                    [w EXCEPT !.chat.reconnectAttempts = attempts], "connecting",
                    "Reconnecting... (" \o ToString(attempts) \o "/"
                        \o ToString(maxReconnectAttempts) \o ")"),
                "connect", reconnectDelay * attempts)
    ELSE LET w1 == updateConnectionStatus(w, "disconnected", "Connection Failed")
         IN  IF ~Truthy(w1.chat.authToken)
             THEN showAuthError(w1, "Connection lost. Please reconnect with your token.")
             ELSE showErrorMessage(w1,
                    "Unable to connect to the MCP server. Please check if ws_gateway.py is running.")

\* An attemptReconnect that compares with <=: one attempt more.
attemptReconnectOneMore(w) ==
    IF w.chat.reconnectAttempts <= maxReconnectAttempts /\ Truthy(w.chat.authToken)
    THEN LET attempts == w.chat.reconnectAttempts + 1
         IN  setTimeout(
                updateConnectionStatus(
                    [w EXCEPT !.chat.reconnectAttempts = attempts], "connecting",
                    "Reconnecting... (" \o ToString(attempts) \o "/"
                        \o ToString(maxReconnectAttempts) \o ")"),
                "connect", reconnectDelay * attempts)
    ELSE LET w1 == updateConnectionStatus(w, "disconnected", "Connection Failed")
         IN  IF ~Truthy(w1.chat.authToken)
             THEN showAuthError(w1, "Connection lost. Please reconnect with your token.")
             ELSE showErrorMessage(w1,
                    "Unable to connect to the MCP server. Please check if ws_gateway.py is running.")

attemptReconnect(w) ==
    IF w.chat.reconnectAttempts < maxReconnectAttempts /\ Truthy(w.chat.authToken)
    THEN LET attempts == w.chat.reconnectAttempts + 1
         IN  setTimeout(
                updateConnectionStatus(
                    [w EXCEPT !.chat.reconnectAttempts = attempts], "connecting",
                    "Reconnecting... (" \o ToString(attempts) \o "/"
                        \o ToString(maxReconnectAttempts) \o ")"),
                "connect", reconnectDelay * attempts)
    ELSE LET w1 == updateConnectionStatus(w, "disconnected", "Connection Failed")
         IN  IF ~Truthy(w1.chat.authToken)
             THEN showAuthError(w1, "Connection lost. Please reconnect with your token.")
             ELSE showErrorMessage(w1,
                    "Unable to connect to the MCP server. Please check if ws_gateway.py is running.")

\* connect(); throws: the WebSocket constructor throws.
connect(w, by, throws) ==
    IF ~Truthy(w.chat.authToken)
    THEN showAuthError(w, "No authentication token provided")
    ELSE IF throws
    THEN attemptReconnect(
            clearConnectionTimeout(
                updateConnectionStatus(w, "disconnected", "Connection Failed")))
    ELSE updateConnectionStatus(
            [w EXCEPT !.socks = Append(@, NewWebSocket(
                                    WebSocketUrl(w.chat.authToken.s), by)),
                      !.chat.ws = Len(w.socks) + 1],
            "connecting", "Connecting...")

\* handleDisconnect(); updateConnectionStatus('disconnected') has no text
\* argument, and textContent = undefined leaves the label empty.
handleDisconnect(w) ==
    LET w1 == IF w.chat.ws # 0
              THEN [w EXCEPT !.socks[w.chat.ws] = CloseSocket(@), !.chat.ws = 0]
              ELSE w
    IN  showAuthModal(
            updateConnectionStatus(
                [w1 EXCEPT !.chat.isConnected = FALSE,
                           !.chat.authToken = JNull,
                           !.chat.messages = <<>>],
                "disconnected", ""))

\* this.ws.onopen
onopen(w) ==
    clearConnectionTimeout(
        hideAuthModal(
            updateConnectionStatus(
                [w EXCEPT !.chat.isConnected = TRUE,
                          !.chat.reconnectAttempts = 0],
                "connected", "Connected")))

\* An onclose that goes on to attemptReconnect() after every close that is
\* not an authentication error.
oncloseReconnecting(w, code) ==
    LET w1 == clearConnectionTimeout(
                updateConnectionStatus(
                    [w EXCEPT !.chat.isConnected = FALSE],
                    "disconnected", "Disconnected"))
    IN  IF code = 1008
        THEN showAuthError(w1,
                "Invalid agent token. Please check your token and try again.")
        ELSE attemptReconnect(w1)

\* this.ws.onclose
onclose(w, code) ==
    LET w1 == clearConnectionTimeout(
                updateConnectionStatus(
                    [w EXCEPT !.chat.isConnected = FALSE],
                    "disconnected", "Disconnected"))
    IN  IF code = 1008
        THEN showAuthError(w1,
                "Invalid agent token. Please check your token and try again.")
        ELSE IF Truthy(w1.chat.authToken) /\ code # 1000
        THEN handleDisconnect(w1)
        ELSE attemptReconnect(w1)

\* this.ws.onerror
onerror(w) ==
    clearConnectionTimeout(updateConnectionStatus(w, "disconnected", "Connection Error"))

handleMessage(w, event) ==
    CASE event = "ai_message" -> addBotMessage(w, "answer")
      [] event = "error" -> addBotMessage(w, "Error: detail")
      [] OTHER -> w

\* The variables of MCPGatewayUI, which the chat page does not have.
UiUntouched ==
    UNCHANGED <<sessionId, isConnected, availableTools, currentTool, testRunner,
                log, modal, loading, tasks, uncaught, selectedTool>>

UserActs == nOps < MaxChatOps /\ nOps' = nOps + 1

\* The connect button, or Enter in the token field of the auth modal.
HandleConnect(token, throws) ==
    /\ UserActs
    /\ chat.authModal
    /\ throws \/ Len(socks) < MaxSockets
    /\ IF token = ""
       THEN Becomes(showAuthError(World, "Please enter your agent token"))
       ELSE LET w1 == hideAuthError(World)
                w2 == [w1 EXCEPT !.chat.connectButtonDisabled = TRUE,
                                 !.chat.authToken = JStr(token)]
                w3 == setTimeout(
                        [w2 EXCEPT !.chat.connectionTimeout = w2.chat.nextTimer],
                        "timeout", connectionTimeoutDelay)
            IN  Becomes(connect(w3, "handleConnect", throws))

\* The disconnect button (the markup that places it is not part of the
\* sources, so it is taken to be within reach in every state).
HandleDisconnect ==
    /\ UserActs
    /\ Becomes(handleDisconnect(World))

\* ws.send(): throws without a socket or on a connecting one, is dropped by a
\* closing or closed one.
SendMessage(message) ==
    /\ UserActs
    /\ IF message = "" \/ ~chat.isConnected
       THEN Becomes(World)
       ELSE /\ Len(chat.messages) < MaxMessages
            /\ LET w1 == addUserMessage(World, message)
               IN  IF chat.ws = 0 \/ socks[chat.ws].readyState = "connecting"
                   THEN Becomes(addBotMessage(w1,
                            "Failed to send message. Please try again."))
                   ELSE IF socks[chat.ws].readyState = "open"
                   THEN Becomes([w1 EXCEPT !.socks[chat.ws].sent =
                                    Append(@, [message |-> message])])
                   ELSE Becomes(w1)

ChatClear ==
    /\ UserActs
    /\ Becomes([World EXCEPT !.chat.messages = <<>>])

\* The connection of socket s is established.
SocketOpens(s) ==
    /\ socks[s].readyState = "connecting"
    /\ Becomes(onopen([World EXCEPT !.socks[s].readyState = "open",
                                    !.socks[s].opened = TRUE]))
    /\ UNCHANGED nOps

\* The connection of socket s fails: an error event and a close event with
\* code 1006, in one task.
SocketFails(s) ==
    /\ socks[s].readyState # "closed"
    /\ Becomes(onclose(onerror([World EXCEPT !.socks[s].readyState = "closed"]),
                       1006))
    /\ UNCHANGED nOps

\* The closing handshake of socket s, which was open, completes.
SocketCloses(s, code) ==
    /\ socks[s].opened
    /\ socks[s].readyState # "closed"
    /\ socks[s].readyState = "closing" => code \in {1000, 1005}
    /\ code # 1006
    /\ Becomes(onclose([World EXCEPT !.socks[s].readyState = "closed"], code))
    /\ UNCHANGED nOps

ServerMessage(s, event) ==
    /\ socks[s].readyState \in {"open", "closing"}
    /\ event \in {"ai_message", "error"} => Len(chat.messages) < MaxMessages
    /\ Becomes(handleMessage(World, event))
    /\ UNCHANGED nOps

\* The timer that handleConnect() set fires.
ConnectionTimeout(t) ==
    /\ t.callback = "timeout"
    /\ LET w1 == [World EXCEPT !.timers = @ \ {t}]
       IN  Becomes(IF ~w1.chat.isConnected
                   THEN showAuthError(w1,
                        "Connection timeout. Please check your token and try again.")
                   ELSE w1)
    /\ UNCHANGED nOps

\* The timer that attemptReconnect() set fires.
ReconnectTimer(t, throws) ==
    /\ t.callback = "connect"
    /\ throws \/ Len(socks) < MaxSockets
    /\ Becomes(connect([World EXCEPT !.timers = @ \ {t}], "reconnect", throws))
    /\ UNCHANGED nOps

InitChat ==
    /\ UiIdle
    /\ FnIdle
    /\ chat = NewChat
    /\ socks = <<>>
    /\ timers = {}

NextChat ==
    \/ (\E token \in TokenInputs : \E throws \in BOOLEAN :
            HandleConnect(token, throws) /\ UiUntouched /\ UNCHANGED fnVars)
    \/ (HandleDisconnect /\ UiUntouched /\ UNCHANGED fnVars)
    \/ (\E message \in MessageInputs :
            SendMessage(message) /\ UiUntouched /\ UNCHANGED fnVars)
    \/ (ChatClear /\ UiUntouched /\ UNCHANGED fnVars)
    \/ (\E s \in DOMAIN socks : SocketOpens(s) /\ UiUntouched /\ UNCHANGED fnVars)
    \/ (\E s \in DOMAIN socks : SocketFails(s) /\ UiUntouched /\ UNCHANGED fnVars)
    \/ (\E s \in DOMAIN socks : \E code \in CloseCodes :
            SocketCloses(s, code) /\ UiUntouched /\ UNCHANGED fnVars)
    \/ (\E s \in DOMAIN socks : \E event \in ServerEvents :
            ServerMessage(s, event) /\ UiUntouched /\ UNCHANGED fnVars)
    \/ (\E t \in timers : ConnectionTimeout(t) /\ UiUntouched /\ UNCHANGED fnVars)
    \/ (\E t \in timers : \E throws \in BOOLEAN :
            ReconnectTimer(t, throws) /\ UiUntouched /\ UNCHANGED fnVars)

SpecChat == InitChat /\ [][NextChat]_vars

(***************************************************************************)
(* Claims about MCPChatInterface.                                          *)
(***************************************************************************)
\* The step creates a WebSocket.
OpensSocket == Len(socks') > Len(socks)

\* The step is a user action on the chat page.
UserAction ==
    \/ \E token \in TokenInputs : \E throws \in BOOLEAN : HandleConnect(token, throws)
    \/ HandleDisconnect
    \/ \E message \in MessageInputs : SendMessage(message)
    \/ ChatClear

RequestsInFlight == {k \in Slots : InFlight(k)}

\* C11: network calls are sequential: under any interleaving of connect,
\* execute tool, run all tests and run category tests, MCPGatewayUI never
\* has two HTTP requests in flight at the same time.
C11_OneRequestInFlight == Cardinality(RequestsInFlight) <= 1

\* The two kinds of test run: run-all and run-category.
RunKinds == {"runAll", "runCategory"}

\* The step in which test run k sends the tools/call of a further scenario,
\* a call of an earlier scenario of the same run having completed.
SendsNextCall(k) ==
    /\ tasks[k].kind \in RunKinds
    /\ tasks'[k].kind = tasks[k].kind
    /\ tasks[k].sent # <<>>
    /\ Len(tasks'[k].sent) > Len(tasks[k].sent)

\* C12: in a test run the fixed delay elapses between any two consecutive
\* tools/call requests: the next scenario's call is sent only by the step
\* that ends the delay awaited after the previous call completed, whether
\* that call succeeded or failed.
C12_DelayBetweenCalls ==
    [][\A k \in Slots : SendsNextCall(k) => tasks[k].pc = "delay"]_vars

\* The scenarios a complete run-all replays, category by category in the
\* order cats, each category in the order of testScenarios.
RECURSIVE ScenariosOf(_)
ScenariosOf(cats) ==
    IF cats = <<>> THEN <<>>
    ELSE [j \in 1..Len(Tests(Head(cats))) |->
             [category |-> Head(cats), test |-> Tests(Head(cats))[j].name]]
         \o ScenariosOf(Tail(cats))

\* The entries the step adds to the message log.
AddedEntries == {log'[j] : j \in (Len(log) + 1)..Len(log')}

\* The step in which a run-all that had to await a call or a delay
\* completes: isRunning is cleared.
RunAllCompletes ==
    /\ testRunner # JNull
    /\ testRunner.isRunning
    /\ ~testRunner'.isRunning

\* The step in which runAllTests() completes, in the turn of the click (no
\* scenario had a call to await) or later.
RunAllEnds ==
    \/ RunAllCompletes
    \/ /\ SystemEntry("Starting comprehensive test suite...") \in AddedEntries
       /\ ~testRunner'.isRunning

\* results has exactly one entry per scenario of scenarios, in that order.
OneEntryPer(scenarios, results) ==
    /\ Len(results) = Len(scenarios)
    /\ \A j \in 1..Len(results) :
          /\ results[j].category = scenarios[j].category
          /\ results[j].test = scenarios[j].test

\* The order of the scenarios: sheets, slides, whatsapp, forms.
ScenarioOrder == ScenariosOf(<<"sheets", "slides", "whatsapp", "forms">>)

\* The summary the step shows is the one of results, and its passed and
\* failed add up to its total.
ShowsSummaryOf(results) ==
    /\ modal'.shown
    /\ modal'.content.t = "summary"
    /\ modal'.content.results = results
    /\ modal'.content.total = Len(results)
    /\ modal'.content.passed + modal'.content.failed = modal'.content.total

IsJsonRpcError(v) == OptMember(v, "error") # JUndef

\* C14: pass/fail reporting follows the gateway's answer: a scenario whose
\* tools/call was answered with a JSON-RPC error object is never recorded
\* with success true (the entry of a passed scenario holds the answer).
C14_ErrorAnswersRecordedFailed ==
    testRunner # JNull =>
        \A j \in 1..Len(testRunner.results) :
            testRunner.results[j].success
                => ~IsJsonRpcError(testRunner.results[j].result)

\* The step in which category run k, having awaited a call or a delay,
\* completes.
CategoryRunCompletes(k) ==
    /\ tasks[k].kind = "runCategory"
    /\ tasks'[k].kind = "idle"

\* C15: when a category test run started from the UI completes, the test
\* report (the summary of passed and failed scenarios) is shown in the
\* response modal.
C15_CategoryRunShowsReport ==
    [][\A k \in Slots :
          CategoryRunCompletes(k)
              => /\ modal'.shown
                 /\ modal'.content.t = "summary"]_vars

\* The step in which invocation k sends a tools/call request.
SendsToolCall(k) ==
    /\ Len(tasks'[k].sent) > Len(tasks[k].sent)
    /\ tasks'[k].pc = "tools/call"
    /\ tasks'[k].req # NoReq

\* C16: every tools/call request the UI sends is recorded in the message
\* log: the step that sends it, from executeCurrentTool or from the test
\* runner, adds a request entry naming the tool and its parameters.
C16_ToolCallsLogged ==
    [][\A k \in Slots :
          SendsToolCall(k)
              => RequestEntry(tasks'[k].req.body.params.name.s,
                              tasks'[k].req.body.params.arguments)
                     \in AddedEntries]_vars

\* ---------------------------------------------------------------------
\* Claims about what the chat client transmits (SpecChat)
\* ---------------------------------------------------------------------

\* The tokens a user can have entered.
EnteredTokens == TokenInputs \ {""}

\* The text carries the token, as entered or URI-encoded.
CarriesToken(text, token) ==
    Includes(text, token) \/ Includes(text, encodeURIComponent(token))

\* C17: the UI never transmits a credential: no connection request of the
\* frontend contains the agent token the user entered.
C17_TokenNotTransmitted ==
    \A s \in DOMAIN socks : \A token \in EnteredTokens :
        ~CarriesToken(socks[s].url, token)

\* ---------------------------------------------------------------------
\* Claims about the handshake envelopes and the test suite (Spec)
\* ---------------------------------------------------------------------

\* The JSON-RPC envelope of the request invocation k has in flight.
EnvelopeInFlight(k) == tasks[k].req.body

\* C18: notifications/initialized is sent as a JSON-RPC notification, its
\* envelope having no id member, while the initialize and tools/list
\* requests each carry an id.
C18_NotificationWithoutId ==
    \A k \in Slots :
        InFlight(k) =>
            /\ EnvelopeInFlight(k).method = "notifications/initialized"
                  => "id" \notin DOMAIN EnvelopeInFlight(k)
            /\ EnvelopeInFlight(k).method \in {"initialize", "tools/list"}
                  => "id" \in DOMAIN EnvelopeInFlight(k)

\* The number of scenarios of testScenarios, over its four categories.
ScenarioCount ==
    Len(testScenarios["sheets"]) + Len(testScenarios["slides"])
        + Len(testScenarios["whatsapp"]) + Len(testScenarios["forms"])

\* The scenarios beyond the ones a run-all of the exploration replays.
NotReplayed == ScenarioCount - Len(ScenariosOf(Categories))

\* The total of the summary the step shows, with the scenarios not replayed.
ReportedTotal == modal'.content.total + NotReplayed

\* No category run was going on when the run-all that ends in this step
\* began, and none was started while it ran.
RanAlone ==
    /\ ~testRunner'.categoryRunStarted
    /\ ~testRunner'.categoryRunAtStart

ActiveRuns == {k \in Slots : tasks[k].kind \in RunKinds}

\* C20: at most one test run is active at any time: while a run started by
\* run-all or by run-category is executing scenarios, no other run starts.
C20_OneActiveRun == Cardinality(ActiveRuns) <= 1

\* ---------------------------------------------------------------------
\* Claims about the connection life cycle of the chat client (SpecChat)
\* ---------------------------------------------------------------------

\* The sockets whose connection is not closed yet: they still have events
\* to deliver.
LiveSockets == {s \in DOMAIN socks : socks[s].readyState # "closed"}

\* The connect button is disabled, with its 'Connecting...' label, in the
\* auth modal.
ButtonBusy == chat.authModal /\ chat.connectButtonDisabled

\* C21: the connect button never stays stuck: while it is disabled in the
\* auth modal, a socket event or a timer is still to come that can open the
\* connection or enable the button again; it is never disabled with every
\* socket closed and no timer pending.
C21_ConnectButtonRecovers == ButtonBusy => (LiveSockets # {} \/ timers # {})

\* The step in which socket s is closed and its close event is handled.
Closes(s) ==
    /\ socks[s].readyState # "closed"
    /\ socks'[s].readyState = "closed"

\* Socket s closes unexpectedly, with a code other than 1000 and 1008: its
\* connection fails (an error event, then a close event with code 1006), or
\* a close event with code 1005 arrives.
ClosesUnexpectedly(s) ==
    /\ Closes(s)
    /\ \/ SocketFails(s)
       \/ \E code \in CloseCodes \ {1000, 1008} : SocketCloses(s, code)

\* The timers a step sets that call connect().
ReconnectsScheduled == {t \in timers' \ timers : t.callback = "connect"}

\* C22: when a socket closes unexpectedly (close code other than 1000 and
\* 1008) while an auth token is set, the close handler resets the client to
\* the auth state: ws is null, isConnected is false, authToken is null, the
\* chat is cleared, the auth modal is shown; and it schedules no reconnect
\* attempt and creates no socket.
C22_UnexpectedCloseResets ==
    [][\A s \in DOMAIN socks :
          Truthy(chat.authToken) /\ ClosesUnexpectedly(s)
              => /\ chat'.ws = 0
                 /\ ~chat'.isConnected
                 /\ chat'.authToken = JNull
                 /\ chat'.messages = <<>>
                 /\ chat'.authModal
                 /\ ReconnectsScheduled = {}
                 /\ Len(socks') = Len(socks)]_vars

\* After one handleConnect() and no other user action, the socket was open
\* and closed unexpectedly: the client is back in the auth state.
C22_Witness ==
    /\ nOps = 1
    /\ Len(socks) = 1
    /\ socks[1].opened
    /\ socks[1].readyState = "closed"
    /\ chat.ws = 0
    /\ ~chat.isConnected
    /\ chat.authToken = JNull
    /\ chat.messages = <<>>
    /\ chat.authModal
    /\ timers = {}

\* The message of the authentication error that a close with code 1008 shows.
InvalidTokenError ==
    JStr("Invalid agent token. Please check your token and try again.")

\* C23: when a socket closes with code 1008 (authentication rejected), the
\* close handler clears authToken, shows the 'Invalid agent token' error,
\* enables the connect button again, leaves isConnected false, and makes no
\* reconnect attempt: it sets no timer that calls connect() and creates no
\* socket.
C23_RejectedTokenCleared ==
    [][\A s \in DOMAIN socks :
          Closes(s) /\ SocketCloses(s, 1008)
              => /\ chat'.authToken = JNull
                 /\ chat'.authError = InvalidTokenError
                 /\ ~chat'.connectButtonDisabled
                 /\ ~chat'.isConnected
                 /\ ReconnectsScheduled = {}
                 /\ Len(socks') = Len(socks)]_vars

\* The socket of a handleConnect() was opened and then closed with code
\* 1008: the token is gone and the error is shown.
C23_Witness ==
    /\ Len(socks) = 1
    /\ socks[1].opened
    /\ socks[1].readyState = "closed"
    /\ chat.authError = InvalidTokenError
    /\ chat.authToken = JNull
    /\ ~chat.connectButtonDisabled
    /\ ~chat.isConnected
    /\ timers = {}

\* Socket s is no longer the current one: this.ws is another socket.
Stale(s) == chat.ws # 0 /\ s # chat.ws

\* The step handles an event of socket s: open, error and close, close, or
\* a message.
SocketEvent(s) ==
    \/ SocketOpens(s)
    \/ SocketFails(s)
    \/ \E code \in CloseCodes : SocketCloses(s, code)
    \/ \E event \in ServerEvents : ServerMessage(s, event)

\* C24: events of a socket that is no longer the current one have no effect
\* on the current connection: they do not change isConnected or authToken
\* and do not close the current socket.
C24_StaleSocketEventsIgnored ==
    [][\A s \in DOMAIN socks :
          Stale(s) /\ SocketEvent(s)
              => /\ chat'.isConnected = chat.isConnected
                 /\ chat'.authToken = chat.authToken
                 /\ socks'[chat.ws].readyState = socks[chat.ws].readyState]_vars

\* The sockets that are connecting or open.
ActiveSockets == {s \in DOMAIN socks : socks[s].readyState \in {"connecting", "open"}}

\* C25: at most one WebSocket created by MCPChatInterface is connecting or
\* open at any time.
C25_OneActiveSocket == Cardinality(ActiveSockets) <= 1

\* C26: whenever isConnected is true, authToken is non-null.
C26_ConnectedHasToken == chat.isConnected => Truthy(chat.authToken)

\* The only socket created so far is being closed: close() was called on
\* it, which with a single socket only the disconnect button does (the
\* handleDisconnect() that a close event runs finds its own socket closed).
ClosingAfterUserDisconnect ==
    /\ Len(socks) = 1
    /\ socks[1].readyState = "closing"
    /\ chat.ws = 0
    /\ chat.authToken = JNull

\* C27: after a user-initiated handleDisconnect() the client stays in the
\* clean signed-out state: the close event of the socket it closed makes no
\* reconnect attempt and shows no authentication error.
C27_QuietAfterUserDisconnect ==
    [][ClosingAfterUserDisconnect /\ Closes(1)
         => /\ chat'.authError = chat.authError
            /\ chat'.authToken = JNull
            /\ ReconnectsScheduled = {}
            /\ Len(socks') = Len(socks)]_vars

\* ---------------------------------------------------------------------
\* Claims about the reconnect budget and the chat messages (SpecChat)
\* ---------------------------------------------------------------------

\* The step in which a socket opens.
SomeSocketOpens ==
    \E s \in DOMAIN socks : ~socks[s].opened /\ socks'[s].opened

\* The step calls attemptReconnect() with a token set: the constructor
\* throws in connect(), or a socket closes with code 1000.
ReconnectAttempted ==
    /\ \/ \E t \in timers : ReconnectTimer(t, TRUE)
       \/ \E token \in TokenInputs \ {""} : HandleConnect(token, TRUE)
       \/ /\ Truthy(chat.authToken)
          /\ \E s \in DOMAIN socks : Closes(s) /\ SocketCloses(s, 1000)
    /\ Truthy(chat'.authToken)

\* C28: reconnection is bounded.  reconnectAttempts stays within 0 and
\* maxReconnectAttempts (5); it counts the reconnect attempts scheduled since
\* the last successful open (every scheduled attempt adds one, and only an
\* open takes it back, to 0), so at most 5 are scheduled between two opens;
\* and an attempt after the budget is used up schedules nothing and reports
\* 'Connection Failed'.
C28_ReconnectBounded ==
    /\ maxReconnectAttempts = 5
    /\ [](chat.reconnectAttempts \in 0..maxReconnectAttempts)
    /\ [][/\ ReconnectsScheduled # {}
             => /\ Cardinality(ReconnectsScheduled) = 1
                /\ chat'.reconnectAttempts = chat.reconnectAttempts + 1
          /\ chat'.reconnectAttempts # chat.reconnectAttempts
             => \/ ReconnectsScheduled # {}
                \/ chat'.reconnectAttempts = 0 /\ SomeSocketOpens
          /\ chat.reconnectAttempts = maxReconnectAttempts /\ ReconnectAttempted
             => /\ ReconnectsScheduled = {}
                /\ Len(socks') = Len(socks)
                /\ chat'.connectionStatus = "disconnected"
                /\ chat'.connectionStatusText = "Connection Failed"]_vars

\* The budget is used up: five attempts were scheduled, the last one failed,
\* no further one is pending and 'Connection Failed' is reported.
C28_Witness ==
    /\ chat.reconnectAttempts = maxReconnectAttempts
    /\ Truthy(chat.authToken)
    /\ {t \in timers : t.callback = "connect"} = {}
    /\ chat.connectionStatus = "disconnected"
    /\ chat.connectionStatusText = "Connection Failed"
    /\ chat.messages # <<>>
    /\ chat.messages[Len(chat.messages)].type = "bot"

\* The step in which handleConnect(), with a token entered, calls connect().
UserConnects ==
    \E token \in TokenInputs \ {""} : \E throws \in BOOLEAN :
        HandleConnect(token, throws)

\* C29: every user-initiated connect starts with the full reconnect budget:
\* reconnectAttempts is 0 whenever handleConnect() makes its connect() call.
C29_FullBudgetOnConnect ==
    [][UserConnects => chat.reconnectAttempts = 0]_vars

(***************************************************************************)
(* The earlier MCPChatInterface, which connects without a token as soon as *)
(* it is constructed.  It uses the variables chat, socks and timers; its   *)
(* definitions carry the source's names with the prefix Legacy.            *)
(***************************************************************************)
LegacyWebSocketUrl == "ws://localhost:9090/ws"
hideLoadingOverlayDelay == 500

\* The fields the constructor assigns, and the page before any handler ran.
NewLegacyChat ==
    [ws |-> 0,
     isConnected |-> FALSE,
     reconnectAttempts |-> 0,
     connectionStatus |-> "",
     connectionStatusText |-> "",
     loadingOverlayHidden |-> FALSE,
     messages |-> <<>>,
     nextTimer |-> 1]

\* hideLoadingOverlay(): the overlay is hidden by a timer.
LegacyHideLoadingOverlay(w) == setTimeout(w, "hideLoadingOverlay", hideLoadingOverlayDelay)

LegacyAttemptReconnect(w) ==
    IF w.chat.reconnectAttempts < maxReconnectAttempts
    THEN LET attempts == w.chat.reconnectAttempts + 1
         IN  setTimeout(
                updateConnectionStatus(
                    [w EXCEPT !.chat.reconnectAttempts = attempts], "connecting",
                    "Reconnecting... (" \o ToString(attempts) \o "/"
                        \o ToString(maxReconnectAttempts) \o ")"),
                "connect", reconnectDelay * attempts)
    ELSE showErrorMessage(
            updateConnectionStatus(w, "disconnected", "Connection Failed"),
            "Unable to connect to the MCP server. Please check if ws_gateway.py is running.")

\* connect(); throws: the WebSocket constructor throws.
LegacyConnect(w, by, throws) ==
    IF throws
    THEN LegacyAttemptReconnect(
            updateConnectionStatus(w, "disconnected", "Connection Failed"))
    ELSE updateConnectionStatus(
            [w EXCEPT !.socks = Append(@, NewWebSocket(LegacyWebSocketUrl, by)),
                      !.chat.ws = Len(w.socks) + 1],
            "connecting", "Connecting...")

\* this.ws.onopen
LegacyOnopen(w) ==
    LegacyHideLoadingOverlay(
        updateConnectionStatus(
            [w EXCEPT !.chat.isConnected = TRUE,
                      !.chat.reconnectAttempts = 0],
            "connected", "Connected"))

\* this.ws.onclose
LegacyOnclose(w) ==
    LegacyAttemptReconnect(
        LegacyHideLoadingOverlay(
            updateConnectionStatus(
                [w EXCEPT !.chat.isConnected = FALSE],
                "disconnected", "Disconnected")))

\* this.ws.onerror
LegacyOnerror(w) == updateConnectionStatus(w, "disconnected", "Connection Error")

\* handleMessage(data), data.event = event and data.text = text.
LegacyHandleMessage(w, event, text) ==
    CASE event = "user_message" -> addUserMessage(w, text)
      [] event = "ai_message" -> addBotMessage(w, "answer")
      [] event = "error" -> addBotMessage(w, "Error: detail")
      [] OTHER -> w

\* The send button, or Enter in the message field.  ws.send() throws
\* without a socket or on a connecting one, and is dropped by a closed one.
LegacySendMessage(message) ==
    /\ UserActs
    /\ IF message = "" \/ ~chat.isConnected
       THEN Becomes(World)
       ELSE IF chat.ws = 0 \/ socks[chat.ws].readyState = "connecting"
       THEN /\ Len(chat.messages) < MaxMessages
            /\ Becomes(addBotMessage(World,
                    "Failed to send message. Please try again."))
       ELSE IF socks[chat.ws].readyState = "open"
       THEN /\ Len(socks[chat.ws].sent) < MaxMessages
            /\ Becomes([World EXCEPT !.socks[chat.ws].sent =
                            Append(@, [message |-> message])])
       ELSE Becomes(World)

\* The connection of socket s is established.
LegacySocketOpens(s) ==
    /\ socks[s].readyState = "connecting"
    /\ Becomes(LegacyOnopen([World EXCEPT !.socks[s].readyState = "open",
                                          !.socks[s].opened = TRUE]))
    /\ UNCHANGED nOps

\* The connection of socket s is not established: an error event and a close
\* event, in one task.
LegacySocketFails(s) ==
    /\ socks[s].readyState = "connecting"
    /\ Becomes(LegacyOnclose(LegacyOnerror(
                [World EXCEPT !.socks[s].readyState = "closed"])))
    /\ UNCHANGED nOps

\* Socket s, which was open, closes: by the server, or by a failure of the
\* connection (the status that onerror sets is overwritten by onclose in the
\* same task).
LegacySocketCloses(s) ==
    /\ socks[s].readyState = "open"
    /\ Becomes(LegacyOnclose([World EXCEPT !.socks[s].readyState = "closed"]))
    /\ UNCHANGED nOps

\* The server sends a message on socket s; a user_message carries a text of
\* the server's choice.
LegacyServerMessage(s, event, text) ==
    /\ socks[s].readyState = "open"
    /\ Len(chat.messages) < MaxMessages
    /\ Becomes(LegacyHandleMessage(World, event, text))
    /\ UNCHANGED nOps

\* The timer that attemptReconnect() set fires.
LegacyReconnectTimer(t, throws) ==
    /\ t.callback = "connect"
    /\ throws \/ Len(socks) < MaxSockets
    /\ Becomes(LegacyConnect([World EXCEPT !.timers = @ \ {t}], "reconnect", throws))
    /\ UNCHANGED nOps

\* The timer that hideLoadingOverlay() set fires.
LegacyOverlayTimer(t) ==
    /\ t.callback = "hideLoadingOverlay"
    /\ Becomes([World EXCEPT !.timers = @ \ {t},
                             !.chat.loadingOverlayHidden = TRUE])
    /\ UNCHANGED nOps

\* new MCPChatInterface(): the constructor ends with connect().
InitLegacyChat ==
    /\ UiIdle
    /\ FnIdle
    /\ \E throws \in BOOLEAN :
        LET w == LegacyConnect([chat |-> NewLegacyChat, socks |-> <<>>,
                                timers |-> {}], "constructor", throws)
        IN  chat = w.chat /\ socks = w.socks /\ timers = w.timers

NextLegacyChat ==
    \/ (\E message \in MessageInputs :
            LegacySendMessage(message) /\ UiUntouched /\ UNCHANGED fnVars)
    \/ (\E s \in DOMAIN socks : LegacySocketOpens(s) /\ UiUntouched /\ UNCHANGED fnVars)
    \/ (\E s \in DOMAIN socks : LegacySocketFails(s) /\ UiUntouched /\ UNCHANGED fnVars)
    \/ (\E s \in DOMAIN socks : LegacySocketCloses(s) /\ UiUntouched /\ UNCHANGED fnVars)
    \/ (\E s \in DOMAIN socks : \E event \in ServerEvents :
        \E text \in MessageInputs \ {""} :
            LegacyServerMessage(s, event, text) /\ UiUntouched /\ UNCHANGED fnVars)
    \/ (\E t \in timers : \E throws \in BOOLEAN :
            LegacyReconnectTimer(t, throws) /\ UiUntouched /\ UNCHANGED fnVars)
    \/ (\E t \in timers : LegacyOverlayTimer(t) /\ UiUntouched /\ UNCHANGED fnVars)

SpecLegacyChat == InitLegacyChat /\ [][NextLegacyChat]_vars

\* The user-message elements of the chat, in order.
UserMessagesIn(messages) == SelectSeq(messages, LAMBDA m : m.type = "user")

\* The message element that shows the user's text.
UserMessage(text) == [type |-> "user", text |-> text]

\* script.js shows each sent message once: a sendMessage() with non-empty
\* text while connected adds one user-message element with that text, the
\* server's user_message echo changes nothing in the chat, and no other step
\* adds a user-message element.
SentMessageShownOnSend ==
    [][/\ (\A message \in MessageInputs \ {""} :
            chat.isConnected /\ SendMessage(message)
                => UserMessagesIn(chat'.messages)
                     = Append(UserMessagesIn(chat.messages), UserMessage(message)))
       /\ (\A s \in DOMAIN socks :
            ServerMessage(s, "user_message") => chat'.messages = chat.messages)
       /\ (Len(UserMessagesIn(chat'.messages)) > Len(UserMessagesIn(chat.messages))
            => \E message \in MessageInputs \ {""} : SendMessage(message))]_vars

\* C30: each message the user sends is shown exactly once in the chat, in
\* the earlier MCPChatInterface as well: a sendMessage() with non-empty text
\* while connected adds exactly one user-message element, with that text,
\* and the server's user_message echo adds none.
C30_UserMessageShownOnce ==
    [][/\ (\A message \in MessageInputs \ {""} :
            chat.isConnected /\ LegacySendMessage(message)
                => UserMessagesIn(chat'.messages)
                     = Append(UserMessagesIn(chat.messages), UserMessage(message)))
       /\ (\A s \in DOMAIN socks : \A text \in MessageInputs \ {""} :
            LegacyServerMessage(s, "user_message", text)
                => chat'.messages = chat.messages)]_vars

\* The step of the earlier MCPChatInterface runs attemptReconnect(): a socket
\* closes, or connect() is called from a timer and the constructor throws.
LegacyReconnectAttempted ==
    \/ \E s \in DOMAIN socks : LegacySocketFails(s) \/ LegacySocketCloses(s)
    \/ \E t \in timers : LegacyReconnectTimer(t, TRUE)

\* The earlier MCPChatInterface bounds its reconnection in the same way:
\* reconnectAttempts stays within 0..maxReconnectAttempts; a step schedules at
\* most one reconnect, counting it; the counter changes otherwise only to 0
\* when a socket opens; and with the budget used up attemptReconnect()
\* schedules nothing and reports 'Connection Failed'.
LegacyReconnectBounded ==
    /\ [](chat.reconnectAttempts \in 0..maxReconnectAttempts)
    /\ [][/\ (ReconnectsScheduled # {}
                => /\ Cardinality(ReconnectsScheduled) = 1
                   /\ chat'.reconnectAttempts = chat.reconnectAttempts + 1)
          /\ (chat'.reconnectAttempts # chat.reconnectAttempts
                => \/ ReconnectsScheduled # {}
                   \/ (chat'.reconnectAttempts = 0 /\ SomeSocketOpens))
          /\ (chat.reconnectAttempts = maxReconnectAttempts /\ LegacyReconnectAttempted
                => /\ ReconnectsScheduled = {}
                   /\ Len(socks') = Len(socks)
                   /\ chat'.connectionStatus = "disconnected"
                   /\ chat'.connectionStatusText = "Connection Failed")]_vars

\* The earlier MCPChatInterface opens a socket only from a reconnect timer,
\* and sets such a timer whenever a socket closes below the budget.
LegacyReconnectsByTimer ==
    [][/\ (OpensSocket => \E t \in timers : LegacyReconnectTimer(t, FALSE))
       /\ (\A s \in DOMAIN socks :
             (LegacySocketFails(s) \/ LegacySocketCloses(s))
                /\ chat.reconnectAttempts < maxReconnectAttempts
                => Cardinality(ReconnectsScheduled) = 1)]_vars

\* The slots other than k hold no test run.
OnlyRun(k) ==
    \A j \in Slots \ {k} : tasks[j].kind \notin {"runAll", "runCategory"}

\* The step in which the executeTest of the run in slot k returns or throws
\* and the run does not go on to the executeTest of a next scenario.
ExecuteTestExits(k) ==
    /\ \E r \in GatewayResponses : RunAfterCall(k, r)
    /\ tasks'[k].pc # "tools/call"

\* C31: a test run does not change which tool is selected.  When the
\* executeTest of the only run in progress returns or throws, currentTool is
\* the value that the most recent selectTool() or disconnect() gave it (or
\* the constructor's null when there was neither), also when that happened
\* while the tools/call was in flight.
C31_TestRunKeepsSelection ==
    [][\A k \in Slots :
        (OnlyRun(k) /\ ExecuteTestExits(k)) => currentTool' = selectedTool']_vars

====
